---- MODULE Spec2Model ----
(***************************************************************************)
(* Order-to-holdings workflow of the trading backend (Express + MongoDB):  *)
(* POST /newOrder, updateHoldings, POST /order/:id/confirm and             *)
(* POST /order/:id/reject.                                                 *)
(*                                                                         *)
(* The two MongoDB collections are the state.  Each request handler is one *)
(* action (requests are served one at a time in this specification).  A    *)
(* handler is a function from the collections and its inputs to the new    *)
(* collections and the HTTP response; its action applies that function.    *)
(* A MongoDB call may throw; the place where it throws is an input of the  *)
(* handler.  JavaScript numbers are modelled exactly: avg is a reduced     *)
(* fraction, so floating-point rounding is not represented.                *)
(***************************************************************************)
EXTENDS Integers, Sequences, FiniteSets, TLC

VARIABLES
    orders,     \* OrdersModel collection, in creation order; _id = index
    holdings,   \* HoldingsModel collection, in insertion order
    applied,    \* history: per order, number of completed updateHoldings calls
                \* made by the order's own /newOrder and confirm requests
    inflight    \* requests suspended at the await of the save in
                \* updateHoldings, each with the result of its findOne

vars == <<orders, holdings, applied, inflight>>

----------------------------------------------------------------------------
(* Bounds *)

MaxOrders == 2      \* orders ever placed
MaxFaults == 1      \* confirm requests that fail after their updateHoldings
MaxTrades == 3      \* orders ever placed when the store never fails
MaxInflight == 2    \* requests suspended inside updateHoldings at a time

----------------------------------------------------------------------------
(* Request inputs *)

\* a whole JavaScript number as the fraction k/1 (prices and averages are
\* fractions [n, d]; quantities stay integers)
Number(k) == [n |-> k, d |-> 1]

\* request bodies of POST /newOrder: two instruments; a buy, a sell, a buy
\* with an upper-case mode and a lower-case name, a buy with price 0, a buy
\* with quantity 0
Bodies == { [name |-> "TCS", qty |-> 2, price |-> Number(1), mode |-> "buy"],
            [name |-> "TCS", qty |-> 1, price |-> Number(2), mode |-> "sell"],
            [name |-> "infy", qty |-> 1, price |-> Number(2), mode |-> "BUY"],
            [name |-> "infy", qty |-> 1, price |-> Number(0), mode |-> "buy"],
            [name |-> "TCS", qty |-> 0, price |-> Number(1), mode |-> "buy"] }

\* <<is_voice_order, is_simulated>> as the callers send them: the order
\* windows (false, false), the assistant (false, true), the assistant on a
\* voice command (true, true), and a request without the two fields
FlagPairs == { <<"false", "false">>, <<"false", "true">>, <<"true", "true">>,
               <<"undefined", "undefined">> }

\* the store call that throws in a request, if any.  A handler ends at the
\* first throw, so at most one call throws per request.
PlaceFaults == {"none", "save", "update"}
ConfirmFaults == {"none", "find", "update", "verify", "save"}
RejectFaults == {"none", "find", "save"}

----------------------------------------------------------------------------
(* JavaScript helpers *)

toUpperCase(s) ==
    CASE s = "tcs" -> "TCS"
      [] s = "infy" -> "INFY"
      [] s = "buy" -> "BUY"
      [] s = "sell" -> "SELL"
      [] OTHER -> s

toLowerCase(s) ==
    CASE s = "BUY" -> "buy"
      [] s = "SELL" -> "sell"
      [] s = "TCS" -> "tcs"
      [] s = "INFY" -> "infy"
      [] OTHER -> s

\* a || b on boolean-or-undefined values
JsOr(a, b) == IF a = "true" THEN a ELSE b

Truthy(v) == v = "true"

\* res.json drops a key whose value is undefined
JsonField(v) == IF v = "undefined" THEN "absent" ELSE v

RECURSIVE Gcd(_, _)
Gcd(a, b) == IF b = 0 THEN a ELSE Gcd(b, a % b)

\* the number n/d, reduced
Frac(n, d) == LET g == Gcd(n, d) IN [n |-> n \div g, d |-> d \div g]

----------------------------------------------------------------------------
(* HoldingsModel collection *)

\* HoldingsModel.findOne({ name }): index of the first matching row, 0 for null
findOne(coll, stockName) ==
    IF \E i \in 1..Len(coll) : coll[i].name = stockName
    THEN CHOOSE i \in 1..Len(coll) :
            /\ coll[i].name = stockName
            /\ \A j \in 1..(i - 1) : coll[j].name # stockName
    ELSE 0

deleteOneOfAny(coll, stockName) == Tail(coll)

\* HoldingsModel.deleteOne({ name }): the collection without the first match
deleteOne(coll, stockName) ==
    LET i == findOne(coll, stockName)
    IN  IF i = 0 THEN coll
        ELSE SubSeq(coll, 1, i - 1) \o SubSeq(coll, i + 1, Len(coll))

InvalidParametersButPrice(name, qty, price, mode) ==
    name = "" \/ qty = 0 \/ mode = ""

\* the validation at the top of updateHoldings
InvalidParameters(name, qty, price, mode) ==
    name = "" \/ qty = 0 \/ price.n = 0 \/ mode = ""

BuyExistingAtMeanPrice(row, qty, price) ==
    [row EXCEPT !.qty = row.qty + qty,
                !.avg = Frac(row.avg.n * price.d + price.n * row.avg.d,
                             2 * row.avg.d * price.d),
                !.price = price]

BuyExistingAtLatestPrice(row, qty, price) ==
    [row EXCEPT !.qty = row.qty + qty, !.avg = price, !.price = price]

\* BUY of a stock already held: new quantity, weighted average, current price
BuyExisting(row, qty, price) ==
    LET totalQty == row.qty + qty
        \* totalCost = avg * oldQty + price * qty, over avg.d * price.d
        totalCost == [n |-> row.avg.n * row.qty * price.d
                              + price.n * qty * row.avg.d,
                      d |-> row.avg.d * price.d]
    IN  [row EXCEPT !.qty = totalQty,
                    !.avg = Frac(totalCost.n, totalCost.d * totalQty),
                    !.price = price]

\* BUY of a stock not held: the new row
NewHolding(stockName, qty, price) ==
    [name |-> stockName, qty |-> qty, avg |-> price, price |-> price,
     net |-> "0%", day |-> "0%"]

SellExistingKeepsEmptyRow(coll, i, qty) ==
    [coll EXCEPT ![i].qty = coll[i].qty - qty]

SellExistingRemovesRow(coll, i, qty) == deleteOne(coll, coll[i].name)

\* SELL of a stock that is held: the row is deleted when the remaining
\* quantity is <= 0, saved with the reduced quantity otherwise
SellExisting(coll, i, qty) ==
    LET remaining == coll[i].qty - qty
    IN  IF remaining <= 0
        THEN deleteOne(coll, coll[i].name)
        ELSE [coll EXCEPT ![i].qty = remaining]

\* updateHoldings(name, qty, price, mode) on collection coll.  dbThrows: a
\* HoldingsModel call inside it throws.  Every path performs at most one
\* write, its last statement, so a throw leaves the collection as it was.
updateHoldings(coll, name, qty, price, mode, dbThrows) ==
    LET stockName == toUpperCase(name)
        orderMode == toLowerCase(mode)
        i == findOne(coll, stockName)
    IN  IF InvalidParameters(name, qty, price, mode)
        THEN [threw |-> TRUE, holdings |-> coll]
        ELSE IF orderMode \notin {"buy", "sell"}
        THEN [threw |-> TRUE, holdings |-> coll]
        ELSE IF dbThrows
        THEN [threw |-> TRUE, holdings |-> coll]
        ELSE IF orderMode = "buy"
        THEN IF i # 0
             THEN [threw |-> FALSE,
                   holdings |-> [coll EXCEPT ![i] = BuyExisting(coll[i], qty, price)]]
             ELSE [threw |-> FALSE,
                   holdings |-> Append(coll, NewHolding(stockName, qty, price))]
        ELSE IF i # 0
             THEN [threw |-> FALSE, holdings |-> SellExisting(coll, i, qty)]
             ELSE [threw |-> FALSE, holdings |-> coll]

----------------------------------------------------------------------------
(* HTTP responses and handler results *)

\* res.status(status).json({ error, order, needsConfirmation }); order is the
\* _id of the order document in the body, 0 when the body carries none
Response(status, error, order, needsConfirmation) ==
    [status |-> status, error |-> error, order |-> order,
     needsConfirmation |-> needsConfirmation]

\* what a handler leaves behind: the collections and the response
Result(o, h, a, response) ==
    [orders |-> o, holdings |-> h, applied |-> a, response |-> response]

----------------------------------------------------------------------------
(* POST /newOrder *)

\* status of the new order document
InitialStatus(needsConfirmation) ==
    IF Truthy(needsConfirmation) THEN "pending" ELSE "executed"

NewOrder(body, is_voice_order, is_simulated) ==
    [name |-> body.name, qty |-> body.qty, price |-> body.price,
     mode |-> body.mode,
     is_voice_order |-> JsOr(is_voice_order, "false"),
     is_simulated |-> JsOr(is_simulated, "false"),
     status |-> InitialStatus(JsOr(is_voice_order, is_simulated))]

OrdersAfterHoldingsErrorRolledBack(before, saved) == before

\* the order collection after updateHoldings threw in /newOrder: the saved
\* order is kept
OrdersAfterHoldingsError(before, saved) == saved

newOrder(body, is_voice_order, is_simulated, fault) ==
    LET needsConfirmation == JsOr(is_voice_order, is_simulated)
        id == Len(orders) + 1
        saved == Append(orders, NewOrder(body, is_voice_order, is_simulated))
        dbThrows == fault = "update"
        r == updateHoldings(holdings, body.name, body.qty, body.price,
                            body.mode, dbThrows)
    IN  IF fault = "save"
        THEN \* newOrder.save() throws: outer catch
             Result(orders, holdings, applied,
                    Response(500, "Failed to place order", 0, "absent"))
        ELSE IF Truthy(needsConfirmation)
        THEN Result(saved, holdings, Append(applied, 0),
                    Response(200, "", id, JsonField(needsConfirmation)))
        ELSE IF r.threw
        THEN Result(OrdersAfterHoldingsError(orders, saved), holdings,
                    Append(applied, 0),
                    Response(500, "Order placed but holdings update failed",
                             id, "absent"))
        ELSE Result(saved, r.holdings, Append(applied, 1),
                    Response(200, "", id, JsonField(needsConfirmation)))

----------------------------------------------------------------------------
(* POST /order/:id/confirm *)

\* OrdersModel.findById(id) found a document
Found(id) == id \in 1..Len(orders)

NotFoundAnsweredOk(o, h, a) ==
    Result(o, h, a, Response(200, "", 0, "absent"))

\* `if (!order) return res.status(404).json({ error: "Order not found" })`
NotFound(o, h, a) ==
    Result(o, h, a, Response(404, "Order not found", 0, "absent"))

ConfirmAlreadyExecutedNever(order) == FALSE

\* the guard `order.status === "executed"` of /order/:id/confirm
ConfirmAlreadyExecuted(order) == order.status = "executed"

ConfirmReachesStatusUpdateAlways(threw, verifyThrew, verifyMissing) == TRUE

\* the handler goes on to `order.status = "executed"` only when the try
\* block around updateHoldings neither threw nor returned early
ConfirmReachesStatusUpdate(threw, verifyThrew, verifyMissing) ==
    ~threw /\ ~verifyThrew /\ ~verifyMissing

confirm(id, fault) ==
    LET order == orders[id]
        dbThrows == fault = "update"
        r == updateHoldings(holdings, order.name, order.qty, order.price,
                            order.mode, dbThrows)
        isBuy == toLowerCase(order.mode) = "buy"
        \* the findOne of the verification throws
        verifyThrew == ~r.threw /\ isBuy /\ fault = "verify"
        \* the verification finds no holding
        verifyMissing == ~r.threw /\ isBuy /\ ~verifyThrew
                         /\ findOne(r.holdings, toUpperCase(order.name)) = 0
        counted == IF r.threw THEN applied
                   ELSE [applied EXCEPT ![id] = @ + 1]
        executed == [orders EXCEPT ![id].status = "executed"]
    IN  IF fault = "find"
        THEN \* findById throws: outer catch
             Result(orders, holdings, applied,
                    Response(500, "Failed to confirm order", 0, "absent"))
        ELSE IF ~Found(id)
        THEN NotFound(orders, holdings, applied)
        ELSE IF ConfirmAlreadyExecuted(order)
        THEN Result(orders, holdings, applied,
                    Response(400, "Order already executed", 0, "absent"))
        ELSE IF ~ConfirmReachesStatusUpdate(r.threw, verifyThrew, verifyMissing)
        THEN Result(orders, r.holdings, counted,
                    Response(500,
                             IF verifyMissing
                             THEN "Order confirmed but holdings creation failed"
                             ELSE "Failed to update holdings",
                             id, "absent"))
        ELSE IF fault = "save"
        THEN \* order.save() throws: outer catch
             Result(orders, r.holdings, counted,
                    Response(500, "Failed to confirm order", 0, "absent"))
        ELSE Result(executed, r.holdings, counted,
                    Response(200, "", id, "absent"))

----------------------------------------------------------------------------
(* POST /order/:id/reject *)

RejectAlreadyExecutedNever(order) == FALSE

\* the guard `order.status === "executed"` of /order/:id/reject
RejectAlreadyExecuted(order) == order.status = "executed"

\* /order/:id/reject does not touch the holdings collection
HoldingsAfterReject(coll, order) == coll

reject(id, fault) ==
    LET order == orders[id]
        rejected == [orders EXCEPT ![id].status = "rejected"]
    IN  IF fault = "find"
        THEN Result(orders, holdings, applied,
                    Response(500, "Failed to reject order", 0, "absent"))
        ELSE IF ~Found(id)
        THEN NotFound(orders, holdings, applied)
        ELSE IF RejectAlreadyExecuted(order)
        THEN Result(orders, holdings, applied,
                    Response(400, "Cannot reject executed order", 0, "absent"))
        ELSE IF fault = "save"
        THEN Result(orders, holdings, applied,
                    Response(500, "Failed to reject order", 0, "absent"))
        ELSE Result(rejected, HoldingsAfterReject(holdings, order), applied,
                    Response(200, "", id, "absent"))

----------------------------------------------------------------------------
(* Specification *)

\* ids a client may send: those of stored orders and one that matches none
OrderIds == 1..(MaxOrders + 1)

Init ==
    /\ orders = <<>>
    /\ holdings = <<>>
    /\ applied = <<>>
    /\ inflight = <<>>

\* updateHoldings calls of order id that completed in a confirm request
\* which then failed
FailedAfterUpdate(o, a, id) ==
    IF o[id].status = "executed" /\ a[id] > 0 THEN a[id] - 1 ELSE a[id]

RECURSIVE FailedAfterUpdateUpTo(_, _, _)
FailedAfterUpdateUpTo(o, a, n) ==
    IF n = 0 THEN 0
    ELSE FailedAfterUpdate(o, a, n) + FailedAfterUpdateUpTo(o, a, n - 1)

\* the request leaves the result r behind
Apply(r) ==
    /\ FailedAfterUpdateUpTo(r.orders, r.applied, Len(r.orders)) <= MaxFaults
    /\ orders' = r.orders
    /\ holdings' = r.holdings
    /\ applied' = r.applied
    /\ inflight' = inflight

PlaceOrder ==
    /\ Len(orders) < MaxOrders
    /\ \E body \in Bodies, flags \in FlagPairs, fault \in PlaceFaults :
          Apply(newOrder(body, flags[1], flags[2], fault))

ConfirmOrder ==
    \E id \in OrderIds, fault \in ConfirmFaults : Apply(confirm(id, fault))

RejectOrder ==
    \E id \in OrderIds, fault \in RejectFaults : Apply(reject(id, fault))

Next == PlaceOrder \/ ConfirmOrder \/ RejectOrder

Spec == Init /\ [][Next]_vars

TypeOK ==
    /\ Len(orders) <= MaxOrders
    /\ Len(applied) = Len(orders)
    /\ \A i \in 1..Len(orders) :
          /\ orders[i].status \in {"pending", "executed", "rejected"}
          /\ applied[i] \in 0..(MaxFaults + 1)
    /\ \A i \in 1..Len(holdings) : holdings[i].qty \in Int

----------------------------------------------------------------------------
(* GET /repair-holdings *)

\* res.status(status).json({ error, fixed | created })
RepairResponse(status, error, count) ==
    [status |-> status, error |-> error, count |-> count]

\* OrdersModel.find({ status: "executed", mode: { $regex: /^buy$/i } })
\* selects the order
ExecutedBuy(order) ==
    order.status = "executed" /\ toLowerCase(order.mode) = "buy"

HoldingMissingUnchecked(h, order) == ExecutedBuy(order)

\* the order is one of executedBuyOrders and
\* `HoldingsModel.findOne({ name: order.name.toUpperCase() })` is null
HoldingMissing(h, order) ==
    ExecutedBuy(order) /\ findOne(h, toUpperCase(order.name)) = 0

\* the for loop over executedBuyOrders from order i on, on holdings h:
\* the holdings it leaves and the number of holdings it fixed
RECURSIVE RepairHoldingsFrom(_, _, _, _)
RepairHoldingsFrom(o, h, i, dbThrows) ==
    IF i > Len(o) THEN [holdings |-> h, fixed |-> 0]
    ELSE LET order == o[i]
             missing == HoldingMissing(h, order)
             u == updateHoldings(h, order.name, order.qty, order.price,
                                 order.mode, dbThrows)
             rest == RepairHoldingsFrom(o, IF missing THEN u.holdings ELSE h,
                                        i + 1, dbThrows)
         IN  [holdings |-> rest.holdings,
              fixed |-> rest.fixed + IF missing /\ ~u.threw THEN 1 ELSE 0]

\* fault: "find" OrdersModel.find throws, "update" the store calls of
\* updateHoldings throw
repairHoldings(fault) ==
    IF fault = "find"
    THEN Result(orders, holdings, applied,
                RepairResponse(500, "Failed to repair holdings", 0))
    ELSE LET r == RepairHoldingsFrom(orders, holdings, 1, fault = "update")
         IN  Result(orders, r.holdings, applied,
                    RepairResponse(200, "", r.fixed))

----------------------------------------------------------------------------
(* GET /repair-orders *)

\* OrdersModel.findOne({ name: holding.name.toUpperCase(),
\*                       mode: { $regex: /^buy$/i }, status: "executed" })
ExistingOrder(o, holding) ==
    \E k \in 1..Len(o) :
        /\ o[k].name = toUpperCase(holding.name)
        /\ toLowerCase(o[k].mode) = "buy"
        /\ o[k].status = "executed"

\* the order document created for a holding without an order
MissingOrder(holding) ==
    [name |-> toUpperCase(holding.name), qty |-> holding.qty,
     price |-> holding.avg, mode |-> "buy",
     is_voice_order |-> "false", is_simulated |-> "false",
     status |-> "executed"]

RepairOrdersFromScratch(o, a, h, i, saveThrows) ==
    [orders |-> [k \in 1..Len(h) |-> MissingOrder(h[k])],
     applied |-> [k \in 1..Len(h) |-> 0]]

\* the for loop over allHoldings from holding i on: the orders and the
\* history it leaves
RECURSIVE RepairOrdersFrom(_, _, _, _, _)
RepairOrdersFrom(o, a, h, i, saveThrows) ==
    IF i > Len(h) THEN [orders |-> o, applied |-> a]
    ELSE IF ExistingOrder(o, h[i]) \/ saveThrows
         THEN RepairOrdersFrom(o, a, h, i + 1, saveThrows)
         ELSE RepairOrdersFrom(Append(o, MissingOrder(h[i])), Append(a, 0),
                               h, i + 1, saveThrows)

\* fault: "find" HoldingsModel.find throws, "save" newOrder.save throws
repairOrders(fault) ==
    IF fault = "find"
    THEN Result(orders, holdings, applied,
                RepairResponse(500, "Failed to repair orders", 0))
    ELSE LET r == RepairOrdersFrom(orders, applied, holdings, 1,
                                   fault = "save")
         IN  Result(r.orders, holdings, r.applied,
                    RepairResponse(200, "", Len(r.orders) - Len(orders)))

----------------------------------------------------------------------------
(* The ledger when the store never fails *)

\* requests <<body, is_voice_order, is_simulated>> of POST /newOrder: manual
\* buys and sells of one instrument at different prices, a manual buy under
\* a lower-case name, a buy placed by the assistant and a sell placed by voice
LedgerRequests ==
    { <<[name |-> "TCS", qty |-> 10, price |-> Number(100), mode |-> "buy"],
        "false", "false">>,
      <<[name |-> "TCS", qty |-> 5, price |-> Number(120), mode |-> "buy"],
        "false", "false">>,
      <<[name |-> "TCS", qty |-> 5, price |-> Number(130), mode |-> "sell"],
        "false", "false">>,
      <<[name |-> "TCS", qty |-> 15, price |-> Number(130), mode |-> "sell"],
        "false", "false">>,
      <<[name |-> "infy", qty |-> 5, price |-> Number(120), mode |-> "buy"],
        "false", "false">>,
      <<[name |-> "TCS", qty |-> 5, price |-> Number(120), mode |-> "buy"],
        "false", "true">>,
      <<[name |-> "TCS", qty |-> 5, price |-> Number(130), mode |-> "sell"],
        "true", "true">> }

LedgerPlace ==
    /\ Len(orders) < MaxTrades
    /\ \E request \in LedgerRequests :
          Apply(newOrder(request[1], request[2], request[3], "none"))

LedgerConfirm == \E id \in 1..Len(orders) : Apply(confirm(id, "none"))

LedgerReject == \E id \in 1..Len(orders) : Apply(reject(id, "none"))

\* (without orders, and without holdings below, the request changes nothing)
RepairHoldings ==
    /\ orders # <<>>
    /\ Apply(repairHoldings("none"))

RepairOrders ==
    /\ holdings # <<>>
    /\ Apply(repairOrders("none"))

LedgerNext ==
    \/ LedgerPlace
    \/ LedgerConfirm
    \/ LedgerReject
    \/ RepairHoldings
    \/ RepairOrders

LedgerSpec == Init /\ [][LedgerNext]_vars

\* the ledger without the repair requests
TradeNext == LedgerPlace \/ LedgerConfirm \/ LedgerReject

TradeSpec == Init /\ [][TradeNext]_vars

----------------------------------------------------------------------------
(* Concurrent requests.  Node runs another request at every await; of the  *)
(* awaits of a request that executes a BUY, two are modelled: the one      *)
(* between the findOne and the save of updateHoldings, and in /newOrder    *)
(* the one between the save of the order and updateHoldings.  A request    *)
(* runs up to one of them in one step and from it to its response in a     *)
(* second step.  No lock and no transaction surrounds the steps; the       *)
(* HoldingsModel schema documented at part_010:131-141 declares no unique  *)
(* index on name.                                                          *)

\* buys of one instrument: two manual ones and one placed by the assistant
RaceRequests ==
    { <<[name |-> "TCS", qty |-> 10, price |-> Number(100), mode |-> "buy"],
        "false", "false">>,
      <<[name |-> "tcs", qty |-> 5, price |-> Number(120), mode |-> "buy"],
        "false", "false">>,
      <<[name |-> "TCS", qty |-> 5, price |-> Number(120), mode |-> "buy"],
        "false", "true">> }

\* `existingHolding = await HoldingsModel.findOne({ name: stockName })`:
\* <<>> for null, else the place and the content of the document read
ReadHolding(coll, name) ==
    LET i == findOne(coll, toUpperCase(name))
    IN  IF i = 0 THEN <<>> ELSE <<[i |-> i, row |-> coll[i]]>>

\* the save of the buy branch after that read: the document read is written
\* back with the new qty, avg and price, or a new document is inserted
SaveHolding(coll, read, name, qty, price) ==
    IF read = <<>>
    THEN Append(coll, NewHolding(toUpperCase(name), qty, price))
    ELSE [coll EXCEPT ![read[1].i] = BuyExisting(read[1].row, qty, price)]

\* the suspended requests after the request of this kind for order id read
\* the holding of the order's name
Suspend(kind, id, name) ==
    Append(inflight, [kind |-> kind, id |-> id,
                      read |-> ReadHolding(holdings, name)])

\* the suspended requests after /newOrder saved order id and before it
\* calls updateHoldings
SuspendSaved(id) ==
    Append(inflight, [kind |-> "saved", id |-> id, read |-> <<>>])

\* POST /newOrder up to `await newOrder.save()` or up to the save in
\* updateHoldings; an order that needs confirmation is answered at once
RacePlace ==
    /\ Len(orders) < MaxTrades
    /\ \E request \in RaceRequests :
          LET order == NewOrder(request[1], request[2], request[3])
          IN  /\ orders' = Append(orders, order)
              /\ applied' = Append(applied, 0)
              /\ holdings' = holdings
              /\ IF order.status = "pending"
                 THEN inflight' = inflight
                 ELSE /\ Len(inflight) < MaxInflight
                      /\ \/ inflight' = Suspend("place", Len(orders) + 1,
                                             order.name)
                         \/ inflight' = SuspendSaved(Len(orders) + 1)

\* POST /order/:id/confirm up to the save in updateHoldings
RaceConfirm ==
    /\ Len(inflight) < MaxInflight
    /\ \E id \in 1..Len(orders) :
          /\ ~ConfirmAlreadyExecuted(orders[id])
          /\ inflight' = Suspend("confirm", id, orders[id].name)
          /\ UNCHANGED <<orders, holdings, applied>>

\* the first executed BUY order without a holding, 0 if there is none
FirstMissing(o, h) ==
    LET missing == { i \in 1..Len(o) :
                        /\ ExecutedBuy(o[i])
                        /\ findOne(h, toUpperCase(o[i].name)) = 0 }
    IN  IF missing = {} THEN 0
        ELSE CHOOSE i \in missing : \A j \in missing : i <= j

\* GET /repair-holdings up to the save in its first updateHoldings
RaceRepair ==
    /\ Len(inflight) < MaxInflight
    /\ FirstMissing(orders, holdings) # 0
    /\ inflight' = Suspend("repair", FirstMissing(orders, holdings),
                            orders[FirstMissing(orders, holdings)].name)
    /\ UNCHANGED <<orders, holdings, applied>>

\* the suspended request k runs to its response: from the save in
\* updateHoldings, or through all of updateHoldings when it was suspended
\* before it; /repair-holdings goes through the rest of its loop
Resume(k) ==
        LET request == inflight[k]
            order == orders[request.id]
            read == IF request.kind = "saved"
                    THEN ReadHolding(holdings, order.name)
                    ELSE request.read
            saved == SaveHolding(holdings, read, order.name,
                                 order.qty, order.price)
        IN  /\ inflight' = SubSeq(inflight, 1, k - 1)
                               \o SubSeq(inflight, k + 1, Len(inflight))
            /\ holdings' =
                  IF request.kind = "repair"
                  THEN RepairHoldingsFrom(orders, saved, request.id + 1,
                                          FALSE).holdings
                  ELSE saved
            /\ orders' =
                  IF request.kind = "confirm"
                  THEN [orders EXCEPT ![request.id].status = "executed"]
                  ELSE orders
            /\ applied' =
                  IF request.kind = "repair" THEN applied
                  ELSE [applied EXCEPT ![request.id] = @ + 1]

RaceResume == \E k \in 1..Len(inflight) : Resume(k)

RaceNext == RacePlace \/ RaceConfirm \/ RaceRepair \/ RaceResume

RaceSpec == Init /\ [][RaceNext]_vars

----------------------------------------------------------------------------
(* Order lifecycle: PENDING, EXECUTED, REJECTED *)

Stored == 1..Len(orders)

\* the order was placed by voice or by the assistant
NeedsConfirmation(order) ==
    order.is_voice_order = "true" \/ order.is_simulated = "true"

\* updateHoldings accepts the order's fields
ValidOrder(order) ==
    /\ ~InvalidParameters(order.name, order.qty, order.price, order.mode)
    /\ toLowerCase(order.mode) \in {"buy", "sell"}

\* C1: an order's status changes only PENDING->EXECUTED or PENDING->REJECTED;
\* an order that is EXECUTED or REJECTED keeps that status in every later step.
C1_TerminalStatus ==
    [][\A id \in Stored :
          orders[id].status \in {"executed", "rejected"}
              => orders'[id].status = orders[id].status]_vars

\* C2: once an order is REJECTED, no confirmOrder or rejectOrder call on its
\* id changes any holding.
C2_RejectedNoPositionEffect ==
    [][\A id \in Stored :
          orders[id].status = "rejected" =>
              /\ \A fault \in ConfirmFaults :
                    Apply(confirm(id, fault)) => holdings' = holdings
              /\ \A fault \in RejectFaults :
                    Apply(reject(id, fault)) => holdings' = holdings]_vars

\* C3: no order's position effect is applied twice, and none is applied while
\* the order is not EXECUTED.
C3_EffectOnceAtExecution ==
    \A id \in Stored :
        /\ applied[id] <= 1
        /\ applied[id] = 1 => orders[id].status = "executed"

\* C4: a successful placeOrder with neither flag set stores the order EXECUTED
\* and returns needsConfirmation = false; with is_voice_order or is_simulated
\* set it stores the order PENDING and returns needsConfirmation = true.
C4_StatusFromOrigin ==
    [][\A body \in Bodies, flags \in FlagPairs :
          LET r == newOrder(body, flags[1], flags[2], "none")
              id == Len(orders) + 1
          IN  (r.response.status = 200 /\ Apply(r)) =>
                /\ Len(orders') = id
                /\ IF flags[1] = "true" \/ flags[2] = "true"
                   THEN /\ orders'[id].status = "pending"
                        /\ r.response.needsConfirmation = "true"
                   ELSE /\ orders'[id].status = "executed"
                        /\ r.response.needsConfirmation = "false"]_vars

\* C5: placing a VOICE/ASSISTANT order changes no holding, and while the order
\* is PENDING only a confirmOrder that succeeds (and leaves it EXECUTED)
\* changes holdings on its behalf.
C5_PendingNoPositionEffect ==
    [][/\ \A body \in Bodies, flags \in FlagPairs, fault \in PlaceFaults :
             (/\ flags[1] = "true" \/ flags[2] = "true"
              /\ Apply(newOrder(body, flags[1], flags[2], fault)))
                 => holdings' = holdings
       /\ \A id \in Stored, fault \in ConfirmFaults :
             (/\ orders[id].status = "pending"
              /\ Apply(confirm(id, fault))
              /\ holdings' # holdings)
                 => orders'[id].status = "executed"]_vars

\* C6: a confirmOrder that nothing prevents moves a PENDING order to EXECUTED;
\* a confirmOrder on an EXECUTED order never succeeds, answers 400 "Order
\* already executed" whenever the order is read, and changes no holding and
\* no order.
C6_ConfirmTwice ==
    \A id \in Stored, fault \in ConfirmFaults :
        LET r == confirm(id, fault)
        IN  /\ (/\ orders[id].status = "pending"
                /\ ValidOrder(orders[id])
                /\ fault = "none")
                   => /\ r.response.status = 200
                      /\ r.orders[id].status = "executed"
            /\ orders[id].status = "executed"
                   => /\ r.holdings = holdings
                      /\ r.orders = orders
                      /\ r.applied = applied
                      /\ r.response.status # 200
                      /\ fault # "find"
                            => /\ r.response.status = 400
                               /\ r.response.error = "Order already executed"

\* a VOICE/ASSISTANT order that a first confirmOrder has executed, with its
\* holding, and a second confirmOrder that answers 400
C6_Witness ==
    \E id \in Stored :
        /\ NeedsConfirmation(orders[id])
        /\ orders[id].status = "executed"
        /\ applied[id] = 1
        /\ findOne(holdings, toUpperCase(orders[id].name)) # 0
        /\ confirm(id, "none").response.status = 400

\* C7: rejectOrder on an EXECUTED order never succeeds, answers 400 "Cannot
\* reject executed order" whenever the order is read, and changes neither
\* orders nor holdings; rejectOrder on a PENDING order succeeds whenever the
\* order store does not throw, sets the status to REJECTED and never changes
\* a holding.
C7_Reject ==
    \A id \in Stored, fault \in RejectFaults :
        LET r == reject(id, fault)
        IN  /\ orders[id].status = "executed"
                   => /\ r.orders = orders
                      /\ r.holdings = holdings
                      /\ r.response.status # 200
                      /\ fault # "find"
                            => /\ r.response.status = 400
                               /\ r.response.error = "Cannot reject executed order"
            /\ orders[id].status = "pending"
                   => /\ r.holdings = holdings
                      /\ IF fault = "none"
                         THEN /\ r.response.status = 200
                              /\ r.orders = [orders EXCEPT ![id].status = "rejected"]
                         ELSE /\ r.response.status = 500
                              /\ r.orders = orders

\* an executed order whose rejectOrder answers 400, a rejected order without
\* position effect, and a holding, side by side
C7_Witness ==
    /\ Len(holdings) > 0
    /\ \E id \in Stored :
          /\ orders[id].status = "executed"
          /\ reject(id, "none").response.status = 400
    /\ \E id \in Stored : orders[id].status = "rejected" /\ applied[id] = 0

\* the position update of confirmOrder on order id fails: updateHoldings
\* throws, or the verification after it throws or finds no holding
PositionUpdateFails(id, fault) ==
    LET order == orders[id]
        u == updateHoldings(holdings, order.name, order.qty, order.price,
                            order.mode, fault = "update")
    IN  \/ u.threw
        \/ /\ toLowerCase(order.mode) = "buy"
           /\ \/ fault = "verify"
              \/ findOne(u.holdings, toUpperCase(order.name)) = 0

\* C8: when the position update fails during confirmOrder the call fails with
\* 500 and the order keeps its status; a confirmOrder that marks an order
\* EXECUTED had its position update succeed.
C8_ConfirmFailsEntirely ==
    \A id \in Stored, fault \in ConfirmFaults :
        LET r == confirm(id, fault)
        IN  orders[id].status # "executed" =>
              /\ (fault # "find" /\ PositionUpdateFails(id, fault))
                    => /\ r.response.status = 500
                       /\ r.orders = orders
              /\ r.orders[id].status = "executed"
                    => /\ ~PositionUpdateFails(id, fault)
                       /\ r.response.status = 200
                       /\ r.applied[id] = applied[id] + 1

\* two PENDING orders whose confirmOrder answers 500 and leaves them PENDING:
\* one with price 0, one valid whose updateHoldings meets a store error
C8_Witness ==
    \E id \in Stored, other \in Stored :
        /\ orders[id].status = "pending"
        /\ orders[id].price.n = 0
        /\ confirm(id, "none").response.status = 500
        /\ confirm(id, "none").orders[id].status = "pending"
        /\ orders[other].status = "pending"
        /\ ValidOrder(orders[other])
        /\ confirm(other, "update").response.status = 500
        /\ confirm(other, "update").orders[other].status = "pending"

\* C9: when updateHoldings fails during a MANUAL placeOrder the order is
\* stored EXECUTED, earlier orders and all holdings are as before, and the
\* call answers 500 "Order placed but holdings update failed" with the order.
C9_PlaceOrderPartialFailure ==
    \A body \in Bodies, flags \in FlagPairs, fault \in {"none", "update"} :
        LET r == newOrder(body, flags[1], flags[2], fault)
            u == updateHoldings(holdings, body.name, body.qty, body.price,
                                body.mode, fault = "update")
            id == Len(orders) + 1
        IN  (flags[1] # "true" /\ flags[2] # "true" /\ u.threw) =>
              /\ Len(r.orders) = id
              /\ SubSeq(r.orders, 1, Len(orders)) = orders
              /\ r.orders[id].status = "executed"
              /\ r.orders[id].name = body.name
              /\ r.holdings = holdings
              /\ r.response.status = 500
              /\ r.response.error = "Order placed but holdings update failed"
              /\ r.response.order = id

\* a MANUAL order stored EXECUTED whose position update never happened,
\* beside a holding that was left as it was
C9_Witness ==
    /\ Len(holdings) > 0
    /\ \E id \in Stored :
          /\ ~NeedsConfirmation(orders[id])
          /\ orders[id].status = "executed"
          /\ applied[id] = 0

\* C10: when the order write of placeOrder, or the status write (order.save)
\* of confirmOrder or rejectOrder, throws, neither an order nor a holding
\* differs from before the call.
C10_PersistenceFailureAborts ==
    [][/\ \A body \in Bodies, flags \in FlagPairs :
             Apply(newOrder(body, flags[1], flags[2], "save"))
                 => UNCHANGED <<orders, holdings>>
       /\ \A id \in Stored :
             /\ LET r == confirm(id, "save")
                IN  (/\ r.response.error = "Failed to confirm order"
                     /\ Apply(r))
                        => UNCHANGED <<orders, holdings>>
             /\ LET r == reject(id, "save")
                IN  (/\ r.response.error = "Failed to reject order"
                     /\ Apply(r))
                        => UNCHANGED <<orders, holdings>>]_vars

\* C11: confirmOrder and rejectOrder with an id that matches no stored order
\* change no order and no holding, and answer 404 "Order not found" whenever
\* findById does not throw.
C11_NotFound ==
    \A id \in OrderIds :
        ~Found(id) =>
            /\ \A fault \in ConfirmFaults :
                  LET r == confirm(id, fault)
                  IN  /\ r.orders = orders
                      /\ r.holdings = holdings
                      /\ r.applied = applied
                      /\ r.response.status # 200
                      /\ fault # "find"
                            => /\ r.response.status = 404
                               /\ r.response.error = "Order not found"
            /\ \A fault \in RejectFaults :
                  LET r == reject(id, fault)
                  IN  /\ r.orders = orders
                      /\ r.holdings = holdings
                      /\ r.applied = applied
                      /\ r.response.status # 200
                      /\ fault # "find"
                            => /\ r.response.status = 404
                               /\ r.response.error = "Order not found"

\* a pending order, an executed order and a holding are stored, and both
\* requests on the id after the last stored one answer 404
C11_Witness ==
    /\ Len(orders) = 2
    /\ Len(holdings) > 0
    /\ \E id \in Stored : orders[id].status = "pending"
    /\ ~Found(3)
    /\ confirm(3, "none").response.status = 404
    /\ reject(3, "save").response.status = 404

----------------------------------------------------------------------------
(* Position aggregation *)

\* a manual request of the ledger with the given mode
ManualRequests(mode) ==
    { request \in LedgerRequests :
        /\ toLowerCase(request[1].mode) = mode
        /\ ~Truthy(JsOr(request[2], request[3])) }

\* pending stored orders with the given mode
PendingOrders(mode) ==
    { id \in Stored : /\ orders[id].status = "pending"
                      /\ toLowerCase(orders[id].mode) = mode }

\* the fractions a and b are the same number
SameNumber(a, b) == a.n * b.d = b.n * a.d

\* quantity held of the instrument in collection coll, 0 without a row
Held(coll, name) ==
    LET i == findOne(coll, toUpperCase(name))
    IN  IF i = 0 THEN 0 ELSE coll[i].qty

\* collection after differs from before by the execution of a BUY
BuyEffect(before, after, name, qty, price) ==
    LET stockName == toUpperCase(name)
        i == findOne(before, stockName)
    IN  IF i = 0
        THEN /\ Len(after) = Len(before) + 1
             /\ SubSeq(after, 1, Len(before)) = before
             /\ after[Len(after)].name = stockName
             /\ after[Len(after)].qty = qty
             /\ SameNumber(after[Len(after)].avg, price)
        ELSE /\ Len(after) = Len(before)
             /\ \A j \in 1..Len(before) : j # i => after[j] = before[j]
             /\ after[i].name = stockName
             /\ after[i].qty = before[i].qty + qty
             \* avg * newQty = oldQty * oldAvg + qty * price
             /\ after[i].avg.n * after[i].qty * before[i].avg.d * price.d
                  = after[i].avg.d
                      * (before[i].qty * before[i].avg.n * price.d
                         + qty * price.n * before[i].avg.d)

\* C12: executing a BUY for an instrument without a holding creates one with
\* the order's quantity and avg = the order's price; for an instrument already
\* held it adds the quantity and sets avg to the weighted average
\* (oldQty * oldAvg + qty * price) / (oldQty + qty).  Executions are a manual
\* /newOrder and the confirmation of a pending order.
C12_BuyAggregation ==
    /\ \A request \in ManualRequests("buy") :
          LET body == request[1]
              r == newOrder(body, request[2], request[3], "none")
          IN  BuyEffect(holdings, r.holdings, body.name, body.qty, body.price)
    /\ \A id \in PendingOrders("buy") :
          LET r == confirm(id, "none")
          IN  BuyEffect(holdings, r.holdings, orders[id].name, orders[id].qty,
                        orders[id].price)

\* 10 bought at 100 and then 5 at 120: 15 held, total cost 1600
C12_Witness ==
    /\ Len(orders) = 2
    /\ orders[1].qty = 10 /\ orders[1].price = Number(100)
    /\ orders[2].qty = 5 /\ orders[2].price = Number(120)
    /\ Len(holdings) = 1
    /\ holdings[1].qty = 15
    /\ holdings[1].avg.n * 15 = 1600 * holdings[1].avg.d

\* collection after differs from before by the execution of a SELL of at
\* most the quantity held
SellEffect(before, after, name, qty) ==
    LET i == findOne(before, toUpperCase(name))
    IN  IF before[i].qty = qty
        THEN after = SubSeq(before, 1, i - 1)
                        \o SubSeq(before, i + 1, Len(before))
        ELSE /\ Len(after) = Len(before)
             /\ \A j \in 1..Len(before) : j # i => after[j] = before[j]
             /\ after[i].name = before[i].name
             /\ after[i].qty = before[i].qty - qty
             /\ after[i].avg = before[i].avg

\* C13: executing a SELL of at most the quantity held reduces the holding's
\* quantity by the order's quantity and leaves avg unchanged; when the
\* quantity reaches 0 the holding row is removed.
C13_SellWithinHolding ==
    /\ \A request \in ManualRequests("sell") :
          LET body == request[1]
              r == newOrder(body, request[2], request[3], "none")
          IN  (Held(holdings, body.name) > 0
                  /\ body.qty <= Held(holdings, body.name))
                  => SellEffect(holdings, r.holdings, body.name, body.qty)
    /\ \A id \in PendingOrders("sell") :
          LET r == confirm(id, "none")
          IN  (Held(holdings, orders[id].name) > 0
                  /\ orders[id].qty <= Held(holdings, orders[id].name))
                  => SellEffect(holdings, r.holdings, orders[id].name,
                                orders[id].qty)

\* 10 bought at 100 and 5 at 120, then all 15 sold: no holding is left, and
\* before that sale a sale of 5 would have left 10 at the same avg
C13_Witness ==
    /\ Len(orders) = 3
    /\ orders[3].mode = "sell" /\ orders[3].qty = 15
    /\ orders[3].status = "executed"
    /\ orders[1].qty = 10 /\ orders[2].qty = 5
    /\ orders[1].status = "executed" /\ orders[2].status = "executed"
    /\ holdings = <<>>

\* C14: executing a SELL for more than the quantity held (by a manual
\* /newOrder or by confirm) leaves the holdings unchanged: the holding is
\* neither reduced nor removed, and none is created when there is none.
C14_OversellLeavesHoldings ==
    [][/\ \A request \in ManualRequests("sell") :
             LET body == request[1]
                 r == newOrder(body, request[2], request[3], "none")
             IN  (body.qty > Held(holdings, body.name) /\ Apply(r))
                     => holdings' = holdings
       /\ \A id \in PendingOrders("sell") :
             LET r == confirm(id, "none")
             IN  (orders[id].qty > Held(holdings, orders[id].name) /\ Apply(r))
                     => holdings' = holdings]_vars

\* C15: a manual /newOrder or a confirm of a SELL for more than the quantity
\* held (or of an instrument without a holding) is answered with a 4xx
\* status and leaves no order executed by that request.
C15_OversellRefused ==
    [][/\ \A request \in ManualRequests("sell") :
             LET body == request[1]
                 r == newOrder(body, request[2], request[3], "none")
             IN  (body.qty > Held(holdings, body.name) /\ Apply(r))
                     => r.response.status \in 400..499
       /\ \A id \in PendingOrders("sell") :
             LET r == confirm(id, "none")
             IN  (orders[id].qty > Held(holdings, orders[id].name) /\ Apply(r))
                     => /\ r.response.status \in 400..499
                        /\ orders'[id].status = "pending"]_vars

\* C16: every stored holding has a quantity greater than 0, after any
\* sequence of /newOrder, confirm, reject and repair requests for orders with
\* positive quantities.
C16_PositiveQuantity ==
    \A i \in 1..Len(holdings) : holdings[i].qty > 0

\* 10 bought and 5 of them sold: 5 are held
C16_Witness ==
    /\ Len(orders) >= 2
    /\ orders[1].mode = "buy" /\ orders[1].qty = 10
    /\ orders[2].mode = "sell" /\ orders[2].qty = 5
    /\ orders[1].status = "executed" /\ orders[2].status = "executed"
    /\ Held(holdings, "TCS") = 5

----------------------------------------------------------------------------
(* Instrument identity *)

\* C17: there is at most one holding row per upper-cased instrument symbol,
\* under any interleaving of /newOrder, confirm and /repair-holdings requests.
C17_OneRowPerSymbol ==
    \A i, j \in 1..Len(holdings) :
        toUpperCase(holdings[i].name) = toUpperCase(holdings[j].name) => i = j

\* the instrument has an executed BUY order, whatever the case of its name
HasExecutedBuy(o, name) ==
    \E j \in 1..Len(o) :
        ExecutedBuy(o[j]) /\ toUpperCase(o[j].name) = toUpperCase(name)

\* C18: symbols that differ only in letter case are the same instrument in
\* every comparison: an executing order updates the holding of its
\* upper-cased symbol, and /repair-orders creates no order for a holding
\* whose instrument has an executed BUY order under a lower-case name.
C18_CaseInsensitiveIdentity ==
    [][/\ \A request \in ManualRequests("buy") :
             LET r == newOrder(request[1], request[2], request[3], "none")
             IN  Apply(r) =>
                    Held(holdings', toUpperCase(request[1].name))
                        = Held(holdings, toUpperCase(request[1].name))
                            + request[1].qty
       /\ Apply(repairOrders("none")) =>
             \A k \in (Len(orders) + 1)..Len(orders') :
                 ~HasExecutedBuy(orders, orders'[k].name)]_vars

----------------------------------------------------------------------------
(* Orders and holdings *)

\* upper-cased symbols of the stored orders and holdings
Symbols ==
    { toUpperCase(orders[i].name) : i \in 1..Len(orders) }
        \cup { toUpperCase(holdings[i].name) : i \in 1..Len(holdings) }

\* the executed order o[i] is an order of the instrument
ExecutedFor(o, i, symbol) ==
    o[i].status = "executed" /\ toUpperCase(o[i].name) = symbol

\* sum of the executed BUY quantities minus the executed SELL quantities of
\* the instrument over the first n orders
RECURSIVE NetQuantity(_, _, _)
NetQuantity(o, symbol, n) ==
    IF n = 0 THEN 0
    ELSE NetQuantity(o, symbol, n - 1)
            + IF ~ExecutedFor(o, n, symbol) THEN 0
              ELSE IF toLowerCase(o[n].mode) = "buy" THEN o[n].qty
              ELSE IF toLowerCase(o[n].mode) = "sell" THEN 0 - o[n].qty
              ELSE 0

\* C19: when no store call fails, for every instrument the quantity held (0
\* without a holding) is the sum of the quantities of its executed BUY
\* orders minus the sum of the quantities of its executed SELL orders.
C19_QuantityFromOrders ==
    \A symbol \in Symbols :
        Held(holdings, symbol) = NetQuantity(orders, symbol, Len(orders))

\* the holdings that result from applying the instrument's executed orders
\* i..Len(o) in creation order to the holdings h
RECURSIVE Replay(_, _, _, _)
Replay(o, symbol, i, h) ==
    IF i > Len(o) THEN h
    ELSE Replay(o, symbol, i + 1,
                IF ExecutedFor(o, i, symbol)
                THEN updateHoldings(h, o[i].name, o[i].qty, o[i].price,
                                    o[i].mode, FALSE).holdings
                ELSE h)

\* <<qty, avg>> of the instrument's holding, <<>> without one
Position(coll, symbol) ==
    LET i == findOne(coll, symbol)
    IN  IF i = 0 THEN <<>> ELSE <<coll[i].qty, coll[i].avg>>

\* C20: for an instrument with executed BUY orders and no holding,
\* /repair-holdings leaves the quantity and avg that result from applying all
\* executed orders of the instrument, in creation order, to empty holdings.
C20_RepairReplaysHistory ==
    [][Apply(repairHoldings("none")) =>
          \A symbol \in Symbols :
              (HasExecutedBuy(orders, symbol) /\ Held(holdings, symbol) = 0)
                  => Position(holdings', symbol)
                        = Position(Replay(orders, symbol, 1, <<>>), symbol)]_vars

----------------------------------------------------------------------------
(* Repair *)

\* C21: a second /repair-holdings run right after a first one reports
\* fixed = 0 and changes no holding and no order, whatever the state before
\* the first run.
C21_RepairHoldingsTwice ==
    LET first == RepairHoldingsFrom(orders, holdings, 1, FALSE)
        second == RepairHoldingsFrom(orders, first.holdings, 1, FALSE)
    IN  /\ repairHoldings("none").orders = orders
        /\ repairHoldings("none").holdings = first.holdings
        /\ second.fixed = 0
        /\ second.holdings = first.holdings

\* a sold-out instrument with an executed BUY order: the first run fixes it
C21_Witness ==
    /\ holdings = <<>>
    /\ \E id \in Stored : ExecutedBuy(orders[id])
    /\ repairHoldings("none").response.count = 1

\* C22: in a state reached by successful /newOrder, confirm and reject
\* requests alone, instruments sold out included, /repair-holdings creates
\* and changes no holding and reports fixed = 0.
C22_RepairHoldingsNothingMissing ==
    /\ repairHoldings("none").holdings = holdings
    /\ repairHoldings("none").response.count = 0

\* holdings whose instrument has no executed BUY order
WithoutOrder(o, h) ==
    { i \in 1..Len(h) : ~HasExecutedBuy(o, h[i].name) }

\* C23: /repair-orders creates one executed BUY order, with the holding's
\* quantity and its avg as price, for exactly the holdings whose instrument
\* has no executed BUY order; it changes no holding and no existing order,
\* afterwards every holding has an executed BUY order, and a run repeated at
\* once creates no order.
C23_RepairOrdersCreatesMissing ==
    [][Apply(repairOrders("none")) =>
          LET created == (Len(orders) + 1)..Len(orders')
              lacking == WithoutOrder(orders, holdings)
          IN  /\ holdings' = holdings
              /\ SubSeq(orders', 1, Len(orders)) = orders
              /\ Cardinality(created) = Cardinality(lacking)
              /\ \A i \in lacking :
                    \E k \in created :
                        /\ orders'[k].name = toUpperCase(holdings[i].name)
                        /\ orders'[k].qty = holdings[i].qty
                        /\ orders'[k].price = holdings[i].avg
                        /\ ExecutedBuy(orders'[k])
              /\ WithoutOrder(orders', holdings') = {}
              /\ RepairOrdersFrom(orders', applied', holdings', 1, FALSE).orders
                    = orders']_vars

----------------------------------------------------------------------------
(* Concurrency *)

\* C24: no update is lost: when a /newOrder or confirm request that read an
\* existing holding completes its BUY, the quantity held grows by the order's
\* quantity from what it was just before the write, whatever other requests
\* completed since the read.
C24_NoLostUpdate ==
    [][\A k \in 1..Len(inflight) :
          (/\ inflight[k].kind \in {"place", "confirm"}
           /\ inflight[k].read # <<>>
           /\ Resume(k))
              => Held(holdings', orders[inflight[k].id].name)
                    = Held(holdings, orders[inflight[k].id].name)
                        + orders[inflight[k].id].qty]_vars

\* quantity held of the instrument over all rows of its symbol among the
\* first n rows
RECURSIVE TotalHeld(_, _, _)
TotalHeld(coll, symbol, n) ==
    IF n = 0 THEN 0
    ELSE TotalHeld(coll, symbol, n - 1)
            + IF toUpperCase(coll[n].name) = symbol THEN coll[n].qty ELSE 0

\* the quantity the first n orders of the instrument may have added to its
\* holding: each BUY order once, or as often as its own /newOrder and confirm
\* requests went through updateHoldings
RECURSIVE OwnQuantity(_, _, _, _)
OwnQuantity(o, a, symbol, n) ==
    IF n = 0 THEN 0
    ELSE OwnQuantity(o, a, symbol, n - 1)
            + IF toUpperCase(o[n].name) = symbol /\ toLowerCase(o[n].mode) = "buy"
              THEN o[n].qty * (IF a[n] > 1 THEN a[n] ELSE 1)
              ELSE 0

\* C25: /repair-holdings interleaved with a manual BUY /newOrder or a confirm
\* never adds the quantity of an order a second time: the quantity held of an
\* instrument is at most what its orders' own requests added, each order
\* counted at least once.
C25_RepairCountsOrderOnce ==
    \A symbol \in Symbols :
        TotalHeld(holdings, symbol, Len(holdings))
            <= OwnQuantity(orders, applied, symbol, Len(orders))

----------------------------------------------------------------------------
(* Frame conditions *)

\* the request wrote the holding of the instrument: the holding exists
\* afterwards and differs from what it was
Written(before, after, name) ==
    LET i == findOne(before, toUpperCase(name))
        j == findOne(after, toUpperCase(name))
    IN  j # 0 /\ (i = 0 \/ before[i] # after[j])

\* price of the instrument's holding
LastPrice(coll, name) == coll[findOne(coll, toUpperCase(name))].price

\* C26: whenever an executing order writes a holding, the holding's price is
\* the order's price: for a BUY that creates it, a BUY that updates it and a
\* SELL that leaves a positive quantity.
C26_LastPriceOnWrite ==
    [][/\ \A request \in ManualRequests("buy") \cup ManualRequests("sell") :
             LET body == request[1]
                 r == newOrder(body, request[2], request[3], "none")
             IN  (Apply(r) /\ Written(holdings, holdings', body.name))
                     => LastPrice(holdings', body.name) = body.price
       /\ \A id \in PendingOrders("buy") \cup PendingOrders("sell") :
             LET r == confirm(id, "none")
             IN  (Apply(r) /\ Written(holdings, holdings', orders[id].name))
                     => LastPrice(holdings', orders[id].name)
                           = orders[id].price]_vars

\* the instrument's holding document: <<row>>, or <<>> without one
RowOf(coll, symbol) ==
    LET i == findOne(coll, symbol)
    IN  IF i = 0 THEN <<>> ELSE <<coll[i]>>

NamesOf(coll) == { coll[i].name : i \in 1..Len(coll) }

\* the two collections hold the same document for every instrument other
\* than the named one
SameOthers(before, after, name) ==
    \A symbol \in (NamesOf(before) \cup NamesOf(after)) \ {toUpperCase(name)} :
        RowOf(before, symbol) = RowOf(after, symbol)

\* the two collections hold the same document for every instrument
SameHoldings(a, b) ==
    \A symbol \in NamesOf(a) \cup NamesOf(b) : RowOf(a, symbol) = RowOf(b, symbol)

\* the holdings after an order with this body executed on holdings h
Execute(h, body) ==
    updateHoldings(h, body.name, body.qty, body.price, body.mode,
                   FALSE).holdings

\* the holdings after two BUY requests that both ran findOne on h before
\* either saved, the first saving first
ExecuteInterleaved(h, first, second) ==
    SaveHolding(SaveHolding(h, ReadHolding(h, first.name), first.name,
                            first.qty, first.price),
                ReadHolding(h, second.name), second.name, second.qty,
                second.price)

\* C27: /newOrder, confirm and reject on an order of one instrument leave the
\* holding of every other instrument unchanged, and two executions on
\* different instruments leave the same holdings in either order, and for
\* two BUYs also when interleaved.
C27_InstrumentsIndependent ==
    /\ \A request \in LedgerRequests :
          SameOthers(holdings,
                     newOrder(request[1], request[2], request[3],
                              "none").holdings,
                     request[1].name)
    /\ \A id \in Stored :
          /\ SameOthers(holdings, confirm(id, "none").holdings,
                        orders[id].name)
          /\ SameOthers(holdings, reject(id, "none").holdings,
                        orders[id].name)
    /\ \A one, other \in LedgerRequests :
          LET a == one[1]
              b == other[1]
          IN  toUpperCase(a.name) # toUpperCase(b.name) =>
                 /\ SameHoldings(Execute(Execute(holdings, a), b),
                                 Execute(Execute(holdings, b), a))
                 /\ (toLowerCase(a.mode) = "buy" /\ toLowerCase(b.mode) = "buy")
                       => SameHoldings(ExecuteInterleaved(holdings, a, b),
                                       Execute(Execute(holdings, b), a))

\* both instruments are held, INFY first, and a third order can execute
C27_Witness ==
    /\ Len(holdings) = 2
    /\ holdings[1].name = "INFY"
    /\ holdings[2].name = "TCS"
    /\ Len(orders) = 2

\* everything of an order document but its status
Request(order) == [order EXCEPT !.status = ""]

\* C28: /newOrder, confirm, reject, /repair-holdings and /repair-orders
\* never remove an order and never change the name, quantity, price or mode
\* of a stored order; /newOrder and the two repairs leave every stored order
\* as it is.
C28_OrdersKept ==
    [][/\ Len(orders') >= Len(orders)
       /\ \A id \in Stored : Request(orders'[id]) = Request(orders[id])
       /\ (LedgerPlace \/ RepairHoldings \/ RepairOrders)
             => SubSeq(orders', 1, Len(orders)) = orders]_vars

\* an order of the assistant was confirmed, and /repair-orders created the
\* order INFY next to the order infy
C28_Witness ==
    /\ \E id \in Stored : /\ orders[id].is_simulated = "true"
                          /\ orders[id].status = "executed"
    /\ \E id \in Stored : orders[id].name = "INFY"
    /\ \E id \in Stored : orders[id].name = "infy"

----------------------------------------------------------------------------
(* Order of the fills *)

\* ids of the executed BUY orders of the instrument
BuyFills(symbol) ==
    { id \in Stored : ExecutedBuy(orders[id]) /\ ExecutedFor(orders, id, symbol) }

\* every sequence in which the orders ids can execute
Sequences(ids) ==
    { seq \in [1..Cardinality(ids) -> ids] :
        \A i, j \in 1..Cardinality(ids) : seq[i] = seq[j] => i = j }

\* the holdings after the orders seq[i], seq[i + 1], ... executed on h
RECURSIVE ExecuteAll(_, _, _)
ExecuteAll(h, seq, i) ==
    IF i > Len(seq) THEN h
    ELSE ExecuteAll(Execute(h, orders[seq[i]]), seq, i + 1)

\* <<qty, qty * avg>> of the instrument's holding
QuantityAndCost(coll, symbol) ==
    LET i == findOne(coll, symbol)
    IN  <<coll[i].qty, Frac(coll[i].qty * coll[i].avg.n, coll[i].avg.d)>>

----------------------------------------------------------------------------
(* Orders that cannot execute *)

\* the order was stored for confirmation with a price or a quantity of 0
ZeroOrder(order) ==
    NeedsConfirmation(order) /\ (order.price.n = 0 \/ order.qty = 0)

\* C30: an order placed by voice or by the assistant with price 0 or
\* quantity 0 is never executed: every confirm on it fails and leaves the
\* order pending and the holdings unchanged, while reject succeeds.
C30_ZeroOrderNeverExecuted ==
    \A id \in Stored :
        ZeroOrder(orders[id]) =>
            /\ orders[id].status # "executed"
            /\ \A fault \in ConfirmFaults :
                  LET r == confirm(id, fault)
                  IN  /\ r.response.status # 200
                      /\ r.orders = orders
                      /\ r.holdings = holdings
            /\ orders[id].status = "pending" =>
                  LET r == reject(id, "none")
                  IN  /\ r.response.status = 200
                      /\ r.orders[id].status = "rejected"
                      /\ r.holdings = holdings

\* TCS is held and an order of the assistant with quantity 0 is pending:
\* its confirm answers 500
C30_Witness ==
    /\ Len(orders) = 2
    /\ Held(holdings, "TCS") > 0
    /\ orders[2].status = "pending"
    /\ orders[2].qty = 0
    /\ ZeroOrder(orders[2])
    /\ confirm(2, "none").response.status = 500

====
